---- MODULE Spec2Model ----
(***************************************************************************)
(* A model of src/App.py: the text normalizer (normalize_string), the      *)
(* Firestore-backed store and delivery-fee operations, and the             *)
(* nearest-store search of the "Find Store" page.                          *)
(*                                                                         *)
(* Text.  A Python str is modelled as a sequence of characters, each       *)
(* character a TLA+ string.  The four non-ASCII characters the model uses  *)
(* are written by their code point: "U+00DF" is the German sharp s,        *)
(* "U+00E9"/"U+00C9" are e-acute in lower and upper case, "U+00A0" is the  *)
(* no-break space.  A Python value is a record [tag, chars, n]: tag "str"  *)
(* carries chars, tag "int" carries n, tag "none" is None, tag "error" is  *)
(* a raised exception.                                                     *)
(***************************************************************************)
EXTENDS Integers, Sequences, FiniteSets, TLC

VARIABLES
    \* --- normalize_string applied to one input --------------------------
    text,           \* the value handed to normalize_string
    phase,          \* "start", then "done" once the calls below returned
    result,         \* normalize_string(text)
    again,          \* normalize_string(result)
    upper_result,   \* normalize_string(text.upper()), for a str
    \* --- the Firestore collections and the calls made on them -----------
    stores,         \* collection 'stores': a set of documents
    delivery_fees,  \* collection 'delivery_fees': a set of documents
    clock,          \* the server clock behind firestore.SERVER_TIMESTAMP
    last_call,      \* the latest database call: its name and arguments
    last_return,    \* what that call returned
    \* --- callers running add_* step by step -----------------------------
    pc,             \* per caller: "start", "checked", "done"
    call_args,      \* per caller: the record it is adding
    passed_check,   \* per caller: the duplicate check found nothing
    \* --- the Search Stores tab ------------------------------------------
    stores_df,            \* st.session_state.stores_df: the rows last fetched
    user_lat, user_lon,   \* st.session_state.user_lat / user_lon
    store_search_type,    \* st.session_state.store_search_type
    search_outcome,       \* which branch the search took
    top_three_stores,     \* the rows shown, nearest first
    stores_df_columns,    \* the columns of st.session_state.stores_df
    filtered_stores,      \* the rows the search ranked
    geocode_response,     \* what the geocoding request of the latest search or
                          \* store submission met; NoRequest when it made none
    route_requests,       \* calls of get_route_details the search made
    \* --- the Add/Edit forms, their session state and the data cache -----
    editing_store_id,         \* st.session_state.editing_store_id
    editing_delivery_fee_id,  \* st.session_state.editing_delivery_fee_id
    submission,               \* the form submitted in the latest script run
                              \* and how its handler ended
    editing_store_details,         \* st.session_state.editing_store_details
    editing_delivery_fee_details,  \* st.session_state.editing_delivery_fee_details
    selected_delivery_tab,    \* st.session_state.selected_delivery_tab
    delivery_fees_df,         \* st.session_state.delivery_fees_df
    stores_cache,             \* st.cache_data of fetch_stores_from_db_local
    delivery_fees_cache       \* st.cache_data of fetch_delivery_fees_from_db_local

norm_vars   == <<text, phase, result, again, upper_result>>
db_vars     == <<stores, delivery_fees, clock, last_call, last_return>>
race_vars   == <<pc, call_args, passed_check>>
search_vars == <<stores_df, user_lat, user_lon, store_search_type, search_outcome,
                 top_three_stores, stores_df_columns, filtered_stores, geocode_response,
                 route_requests>>
form_vars   == <<editing_store_id, editing_delivery_fee_id, submission,
                 editing_store_details, editing_delivery_fee_details,
                 selected_delivery_tab, delivery_fees_df,
                 stores_cache, delivery_fees_cache>>
vars        == <<norm_vars, db_vars, race_vars, search_vars, form_vars>>

(***************************************************************************)
(* Characters                                                              *)
(***************************************************************************)
LowerAlpha == <<"a","b","c","d","e","f","g","h","i","j","k","l","m",
                "n","o","p","q","r","s","t","u","v","w","x","y","z">>
UpperAlpha == <<"A","B","C","D","E","F","G","H","I","J","K","L","M",
                "N","O","P","Q","R","S","T","U","V","W","X","Y","Z">>
Digits     == {"0","1","2","3","4","5","6","7","8","9"}
LowerSet   == {LowerAlpha[i] : i \in 1..26}
UpperSet   == {UpperAlpha[i] : i \in 1..26}
\* what the regex class \s matches among the characters of the model
Whitespace == {" ", "\t", "U+00A0"}
Punctuation == {"-", ".", ",", ":", "_"}
NonAsciiLetters == {"U+00DF", "U+00E9", "U+00C9"}
Chars == LowerSet \cup UpperSet \cup Digits \cup Whitespace \cup Punctuation
            \cup NonAsciiLetters
IsAscii(c) == c \notin NonAsciiLetters /\ c # "U+00A0"

\* str.lower() of one character
LowerOf == [c \in Chars |->
    IF c \in UpperSet THEN <<LowerAlpha[CHOOSE i \in 1..26 : UpperAlpha[i] = c]>>
    ELSE IF c = "U+00C9" THEN <<"U+00E9">>
    ELSE <<c>>]
\* str.upper() of one character; the sharp s upper-cases to the two letters SS
UpperOf == [c \in Chars |->
    IF c \in LowerSet THEN <<UpperAlpha[CHOOSE i \in 1..26 : LowerAlpha[i] = c]>>
    ELSE IF c = "U+00E9" THEN <<"U+00C9">>
    ELSE IF c = "U+00DF" THEN <<"S","S">>
    ELSE <<c>>]

RECURSIVE Flatten(_)
Flatten(ss) == IF ss = <<>> THEN <<>> ELSE Head(ss) \o Flatten(Tail(ss))
\* a lowering that leaves every character as it is
keep_every_char(s) == s
str_lower(s) == Flatten([i \in 1..Len(s) |-> LowerOf[s[i]]])
str_upper(s) == Flatten([i \in 1..Len(s) |-> UpperOf[s[i]]])

\* the regex class \w on str patterns: Unicode letters and digits, and "_"
IsWordChar(c) == c \in LowerSet \cup UpperSet \cup Digits \cup NonAsciiLetters \cup {"_"}

(***************************************************************************)
(* normalize_string                                                        *)
(***************************************************************************)
\* number_word_map, in the order the dict is written (and iterated)
number_word_map == <<
    [word |-> <<"o","n","e">>,         digit |-> "1"],
    [word |-> <<"t","w","o">>,         digit |-> "2"],
    [word |-> <<"t","h","r","e","e">>, digit |-> "3"],
    [word |-> <<"f","o","u","r">>,     digit |-> "4"],
    [word |-> <<"f","i","v","e">>,     digit |-> "5"],
    [word |-> <<"s","i","x">>,         digit |-> "6"],
    [word |-> <<"s","e","v","e","n">>, digit |-> "7"],
    [word |-> <<"e","i","g","h","t">>, digit |-> "8"],
    [word |-> <<"n","i","n","e">>,     digit |-> "9"],
    [word |-> <<"z","e","r","o">>,     digit |-> "0"] >>

\* \b at the gap before position p of s (p in 1..Len(s)+1): exactly one of the
\* two neighbours is a word character; outside the string counts as non-word
WordBoundary(s, p) ==
    LET before == p > 1 /\ IsWordChar(s[p - 1])
        after  == p <= Len(s) /\ IsWordChar(s[p])
    IN  before # after

MatchAtNoBoundary(s, word, i) ==
    /\ i + Len(word) - 1 <= Len(s)
    /\ \A k \in 1..Len(word) : s[i + k - 1] = word[k]

\* the pattern r'\b' + word + r'\b' matches s at position i
MatchAt(s, word, i) ==
    /\ i + Len(word) - 1 <= Len(s)
    /\ \A k \in 1..Len(word) : s[i + k - 1] = word[k]
    /\ WordBoundary(s, i)
    /\ WordBoundary(s, i + Len(word))

\* re.sub(r'\b' + word + r'\b', digit, s): leftmost, non-overlapping matches
RECURSIVE SubFrom(_, _, _, _)
SubFrom(s, word, digit, i) ==
    IF i > Len(s) THEN <<>>
    ELSE IF MatchAt(s, word, i)
         THEN <<digit>> \o SubFrom(s, word, digit, i + Len(word))
         ELSE <<s[i]>> \o SubFrom(s, word, digit, i + 1)

\* the for loop over number_word_map.items(), from entry k on
RECURSIVE replace_number_words_from(_, _)
replace_number_words_from(s, k) ==
    IF k > Len(number_word_map) THEN s
    ELSE replace_number_words_from(
            SubFrom(s, number_word_map[k].word, number_word_map[k].digit, 1), k + 1)

replace_number_words(s) == replace_number_words_from(s, 1)

\* re.sub(r'[^a-z0-9\s]', '', s)
remove_non_alnum(s) ==
    SelectSeq(s, LAMBDA c : c \in LowerSet \cup Digits \cup Whitespace)

\* re.sub(r'\s+', ' ', s): every run of whitespace becomes one space
RECURSIVE collapse_spaces(_)
collapse_spaces(s) ==
    IF s = <<>> THEN <<>>
    ELSE IF Head(s) \in Whitespace
         THEN IF Len(s) > 1 /\ s[2] \in Whitespace
              THEN collapse_spaces(Tail(s))
              ELSE <<" ">> \o collapse_spaces(Tail(s))
         ELSE <<Head(s)>> \o collapse_spaces(Tail(s))

no_strip(s) == s

\* str.strip()
RECURSIVE strip(_)
strip(s) ==
    IF s = <<>> THEN <<>>
    ELSE IF s[1] \in Whitespace THEN strip(Tail(s))
    ELSE IF s[Len(s)] \in Whitespace THEN strip(SubSeq(s, 1, Len(s) - 1))
    ELSE s

\* lines 56-71 on the characters of a str
normalize_chars(s) ==
    strip(collapse_spaces(remove_non_alnum(replace_number_words(str_lower(s)))))

PyStr(s)  == [tag |-> "str",  chars |-> s,    n |-> 0]
PyInt(k)  == [tag |-> "int",  chars |-> <<>>, n |-> k]
PyNone    == [tag |-> "none", chars |-> <<>>, n |-> 0]
AttributeError == [tag |-> "error", chars |-> <<>>, n |-> 0]

\* what the body does without the isinstance guard: text.lower() on a
\* value that is no str raises AttributeError
normalize_string_unguarded(v) ==
    IF v.tag = "str" THEN PyStr(normalize_chars(v.chars)) ELSE AttributeError

normalize_string(v) ==
    IF v.tag # "str" THEN v ELSE PyStr(normalize_chars(v.chars))

(***************************************************************************)
(* Texts used as inputs                                                    *)
(***************************************************************************)
BranchOne      == <<"B","r","a","n","c","h"," ","O","n","e">>
LoneWolf       == <<"l","o","n","e"," ","w","o","l","f">>
NineNinetyLane == <<"N","i","n","e"," ","N","i","n","e","t","y"," ","L","a","n","e">>
StoreHours     == <<"9"," ","A","M"," ","-"," ","1","0"," ","P","M">>
AlBarshaBranch == <<"A","l"," ","B","a","r","s","h","a"," ","B","r","a","n","c","h">>
AlBarshaHyphen == <<"a","l","-","b","a","r","s","h","a"," "," "," ","b","r","a","n","c","h">>
AlBarshaUpper  == <<"A","L"," ","B","A","R","S","H","A"," "," ","B","R","A","N","C","H">>
TwoDotted      == <<"t",".","w",".","o">>
TabbedWords    == <<"\t","o","n","e","\t","t","w","o","U+00A0">>
CafeOne        == <<"C","a","f","U+00E9"," ","o","n","e">>
OneMainSt      == <<"O","n","e"," ","M","a","i","n"," ","S","t">>
OneMainStDigit == <<"1"," ","m","a","i","n"," ","s","t",".">>
TwoMainSt      == <<"T","w","o"," ","M","a","i","n"," ","S","t">>
Downtown       == <<"D","o","w","n","t","o","w","n">>
DowntownUpper  == <<"D","O","W","N","T","O","W","N",".">>
Marina         == <<"M","a","r","i","n","a">>
ZoneA          == <<"Z","o","n","e"," ","A">>
ZoneALower     == <<"z","o","n","e","-","a">>
Blank          == <<" "," "," ">>
KCC            == <<"K","C","C">>
SmartSeven     == <<"S","m","a","r","t"," ","S","e","v","e","n">>
AllStores      == <<"A","l","l"," ","S","t","o","r","e","s">>

ExampleTexts == {BranchOne, LoneWolf, NineNinetyLane, StoreHours, AlBarshaBranch,
                 AlBarshaHyphen, AlBarshaUpper, TwoDotted, TabbedWords, CafeOne,
                 OneMainSt, OneMainStDigit, TwoMainSt, ZoneALower, Blank, SmartSeven}

\* every text of at most MaxLen characters over Sigma
MaxLen == 4
Sigma  == {"o", "n", "e", "O", "-", "_", " ", "U+00DF"}
BoundedTexts == UNION {[1..k -> Sigma] : k \in 0..MaxLen}

NonStrings == {PyNone, PyInt(123), PyInt(0)}

\* normalize_string on the texts the database calls are made with, computed
\* once: normalized(v) is normalize_string(v)
DbTexts == {PyNone, PyStr(<<>>)} \cup
    {PyStr(s) : s \in {AlBarshaBranch, AlBarshaHyphen, AlBarshaUpper, OneMainSt,
                       OneMainStDigit, TwoMainSt, Downtown, DowntownUpper, Marina,
                       ZoneA, ZoneALower, Blank, KCC, SmartSeven, AllStores}}
NormalizedDbTexts == [v \in DbTexts |-> normalize_string(v)]
normalized(v) == IF v \in DbTexts THEN NormalizedDbTexts[v] ELSE normalize_string(v)
NotCalled  == [tag |-> "notcalled", chars |-> <<>>, n |-> 0]

(***************************************************************************)
(* The variables a specification does not use stay at these values.        *)
(***************************************************************************)
NormIdle ==
    /\ text = NotCalled /\ phase = "idle" /\ result = NotCalled
    /\ again = NotCalled /\ upper_result = NotCalled
DbIdle ==
    /\ stores = {} /\ delivery_fees = {} /\ clock = 1
    /\ last_call = [op |-> "none"] /\ last_return = "none"
RaceIdle ==
    /\ pc = <<>> /\ call_args = <<>> /\ passed_check = <<>>
\* a response of the geocoding request: kind is "OK" (with the location
\* found), a status that is not OK, or the exception the request raised
GeocodeResponse(kind, lat, lng) == [kind |-> kind, lat |-> lat, lng |-> lng]
NoRequest == GeocodeResponse("none", PyNone, PyNone)

\* a form submission: the form, the PIN typed into it, how the handler ended
Submission(form, user_pin, outcome) ==
    [form |-> form, user_pin |-> user_pin, outcome |-> outcome]
NoSubmission == Submission("none", "", "none")

\* a dict of the session is written as the rows it was made from: none for
\* {}, one for row.to_dict()
EmptyDict == <<>>
\* the cache entry of a fetch function: nothing cached, or the frame cached
NotCached == [hit |-> FALSE, df |-> <<>>]
Cached(df) == [hit |-> TRUE, df |-> df]

FormIdle ==
    /\ editing_store_id = PyNone /\ editing_delivery_fee_id = PyNone
    /\ submission = NoSubmission
    /\ editing_store_details = EmptyDict /\ editing_delivery_fee_details = EmptyDict
    /\ selected_delivery_tab = "Search/View"
    /\ delivery_fees_df = <<>>
    /\ stores_cache = NotCached /\ delivery_fees_cache = NotCached

SearchIdle ==
    /\ stores_df = <<>> /\ stores_df_columns = {}
    /\ user_lat = PyNone /\ user_lon = PyNone /\ store_search_type = AllStores
    /\ search_outcome = "idle" /\ top_three_stores = <<>>
    /\ filtered_stores = <<>> /\ geocode_response = NoRequest
    /\ route_requests = 0

(***************************************************************************)
(* SpecNorm: normalize_string called on one input, then on its own result, *)
(* then on the upper-cased input.                                          *)
(***************************************************************************)
InitNorm ==
    /\ text \in {PyStr(s) : s \in BoundedTexts \cup ExampleTexts} \cup NonStrings
    /\ phase = "start"
    /\ result = NotCalled /\ again = NotCalled /\ upper_result = NotCalled
    /\ DbIdle /\ RaceIdle /\ SearchIdle /\ FormIdle

Normalize ==
    /\ phase = "start"
    /\ result' = normalize_string(text)
    /\ phase' = "once"
    /\ UNCHANGED <<text, again, upper_result, db_vars, race_vars, search_vars, form_vars>>

NormalizeAgain ==
    /\ phase = "once"
    /\ again' = normalize_string(result)
    /\ phase' = "twice"
    /\ UNCHANGED <<text, result, upper_result, db_vars, race_vars, search_vars, form_vars>>

\* s.upper() exists for a str only
NormalizeUpper ==
    /\ phase = "twice"
    /\ upper_result' = IF text.tag = "str"
                       THEN normalize_string(PyStr(str_upper(text.chars)))
                       ELSE NotCalled
    /\ phase' = "done"
    /\ UNCHANGED <<text, result, again, db_vars, race_vars, search_vars, form_vars>>

NextNorm == Normalize \/ NormalizeAgain \/ NormalizeUpper
SpecNorm == InitNorm /\ [][NextNorm]_vars

IsLetter(c) == c \in LowerSet \cup UpperSet \cup NonAsciiLetters
IsDigit(c)  == c \in Digits
AllAscii(s) == \A i \in 1..Len(s) : IsAscii(s[i])

\* C4: normalize_string is idempotent: normalizing its own output changes
\* nothing, for every string input.
C4_Idempotent ==
    (phase \in {"twice", "done"} /\ text.tag = "str") => again = result

\* C5 as stated: for every string s, normalize_string(s) equals
\* normalize_string(s.upper()).
C5_CaseInsensitiveEveryString ==
    (phase = "done" /\ text.tag = "str") => upper_result = result

\* C5 amended: for every string s of ASCII characters, normalize_string(s)
\* equals normalize_string(s.upper()).
C5_CaseInsensitiveAscii ==
    (phase = "done" /\ text.tag = "str" /\ AllAscii(text.chars))
        => upper_result = result

C5_Witness ==
    /\ phase = "done"
    /\ text = PyStr(BranchOne)
    /\ result = PyStr(<<"b","r","a","n","c","h"," ","1">>)
    /\ upper_result = result

\* The number word that a maximal run of word characters spells, as its digit,
\* or the run itself.
WordToDigit(run) ==
    IF \E k \in 1..Len(number_word_map) : number_word_map[k].word = run
    THEN <<number_word_map[CHOOSE k \in 1..Len(number_word_map) :
                               number_word_map[k].word = run].digit>>
    ELSE run

\* the end of the maximal run of word characters that starts at i
RECURSIVE RunEnd(_, _)
RunEnd(s, i) ==
    IF i < Len(s) /\ IsWordChar(s[i + 1]) THEN RunEnd(s, i + 1) ELSE i

\* s with each whole word that is a number word replaced by its digit
RECURSIVE WholeWordsReplaced(_, _)
WholeWordsReplaced(s, i) ==
    IF i > Len(s) THEN <<>>
    ELSE IF IsWordChar(s[i])
         THEN WordToDigit(SubSeq(s, i, RunEnd(s, i)))
                  \o WholeWordsReplaced(s, RunEnd(s, i) + 1)
         ELSE <<s[i]>> \o WholeWordsReplaced(s, i + 1)

\* C6: a number word becomes its digit exactly where it is a whole word (a
\* maximal run of word characters); inside a longer word it is left as it is;
\* "Branch One" gives "branch 1" and "lone wolf" gives "lone wolf".
C6_WholeWordsOnly ==
    (phase # "start" /\ text.tag = "str") =>
        /\ result.tag = "str"
        /\ result.chars = strip(collapse_spaces(remove_non_alnum(
                              WholeWordsReplaced(str_lower(text.chars), 1))))
        /\ text.chars = BranchOne => result.chars = <<"b","r","a","n","c","h"," ","1">>
        /\ text.chars = LoneWolf => result.chars = LoneWolf

C6_Witness ==
    /\ phase = "done"
    /\ text = PyStr(NineNinetyLane)
    /\ result = PyStr(<<"9"," ","n","i","n","e","t","y"," ","l","a","n","e">>)

\* C8: a value that is not a string comes back unchanged, and no error is raised.
C8_NonStringPassThrough ==
    (phase # "start" /\ text.tag # "str") => (result = text /\ result.tag # "error")

C8_Witness ==
    phase = "done" /\ text = PyInt(123) /\ result = PyInt(123) /\ again = PyInt(123)

\* C9: the output of normalize_string on a string holds only lowercase ASCII
\* letters, ASCII digits and single spaces, with no space at either end; an
\* input with no letter and no digit gives the empty string.
C9_OutputShape ==
    (phase # "start" /\ text.tag = "str") =>
        LET r == result.chars
            s == text.chars
        IN  /\ result.tag = "str"
            /\ \A i \in 1..Len(r) : r[i] \in LowerSet \cup Digits \cup {" "}
            /\ r # <<>> => (r[1] # " " /\ r[Len(r)] # " ")
            /\ \A i \in 1..(Len(r) - 1) : ~(r[i] = " " /\ r[i + 1] = " ")
            /\ (\A i \in 1..Len(s) : ~IsLetter(s[i]) /\ ~IsDigit(s[i])) => r = <<>>

C9_Witness ==
    /\ phase = "done"
    /\ text = PyStr(StoreHours)
    /\ result = PyStr(<<"9"," ","a","m"," ","1","0"," ","p","m">>)

(***************************************************************************)
(* The Firestore collections.  A document is a record; its id and its      *)
(* timestamp are taken from the server clock, which ticks at every insert. *)
(* The fields contact_number, branch_supervisor, store_status, store_hours *)
(* and google_pin_location (stores) and min_order_amount and               *)
(* amount_for_free_delivery (fees) are stored as given and read by no      *)
(* check; store_type and delivery_charge stand for them.                   *)
(***************************************************************************)
MaxDocs == 2

\* Python truthiness of a value
Truthy(v) ==
    CASE v.tag = "str"  -> v.chars # <<>>
      [] v.tag = "int"  -> v.n # 0
      [] OTHER          -> FALSE

\* normalize_string(store_type) if store_type else None
normalized_store_type_of(store_type) ==
    IF Truthy(store_type) THEN normalized(store_type) ELSE PyNone

zone_normalized_unconditionally(zone) == normalized(zone)

\* normalize_string(zone) if zone else ''
normalized_zone_of(zone) ==
    IF Truthy(zone) THEN normalized(zone) ELSE PyStr(<<>>)

\* .where('normalized_name', '==', nn).where('normalized_address', '==', na)
stores_where(db, nn, na) ==
    {d \in db : d.normalized_name = nn /\ d.normalized_address = na}

\* .where('normalized_location', '==', nl).where('normalized_zone', '==', nz)
delivery_fees_where(db, nl, nz) ==
    {d \in db : d.normalized_location = nl /\ d.normalized_zone = nz}

\* the duplicate check of add_store_to_db finds a document: any(docs)
add_store_finds_duplicate(db, name, address) ==
    stores_where(db, normalized(name), normalized(address)) # {}

\* a write that the storage layer refuses when the key is already there
add_store_write_unique(db, now, name, address, latitude, longitude, store_type) ==
    IF add_store_finds_duplicate(db, name, address) THEN db
    ELSE db \cup {[id |-> now, name |-> name, address |-> address,
                   latitude |-> latitude, longitude |-> longitude,
                   store_type |-> store_type,
                   normalized_name |-> normalized(name),
                   normalized_address |-> normalized(address),
                   normalized_store_type |-> normalized_store_type_of(store_type),
                   timestamp |-> now]}

\* doc_ref = db.collection('stores').document(); doc_ref.set({...})
add_store_write(db, now, name, address, latitude, longitude, store_type) ==
    db \cup {[id |-> now, name |-> name, address |-> address,
              latitude |-> latitude, longitude |-> longitude,
              store_type |-> store_type,
              normalized_name |-> normalized(name),
              normalized_address |-> normalized(address),
              normalized_store_type |-> normalized_store_type_of(store_type),
              timestamp |-> now]}

update_store_never_conflicts(db, store_id, name, address) == FALSE

\* the check of add_store_to_db used for an update: any(docs)
update_store_finds_match(db, store_id, name, address) ==
    stores_where(db, normalized(name), normalized(address)) # {}

\* the loop of update_store_in_db: some matching document has another id
update_store_finds_duplicate(db, store_id, name, address) ==
    \E d \in stores_where(db, normalized(name), normalized(address)) :
        d.id # store_id

\* an update that leaves the normalized fields out of the fields it writes
update_store_write_source_fields_only(db, store_id, name, address, latitude, longitude, store_type) ==
    {IF d.id # store_id THEN d
     ELSE [d EXCEPT !.name = name, !.address = address,
                    !.latitude = latitude, !.longitude = longitude,
                    !.store_type = store_type]
     : d \in db}

\* an update that also writes a new timestamp
update_store_write_restamped(db, store_id, name, address, latitude, longitude, store_type) ==
    {IF d.id # store_id THEN d
     ELSE [d EXCEPT !.name = name, !.address = address,
                    !.latitude = latitude, !.longitude = longitude,
                    !.store_type = store_type,
                    !.normalized_name = normalized(name),
                    !.normalized_address = normalized(address),
                    !.normalized_store_type = normalized_store_type_of(store_type),
                    !.timestamp = d.timestamp + 1]
     : d \in db}

\* doc_ref.update({...}) on the document store_id: every listed field is
\* overwritten, id and timestamp are not listed
update_store_write(db, store_id, name, address, latitude, longitude, store_type) ==
    {IF d.id # store_id THEN d
     ELSE [d EXCEPT !.name = name, !.address = address,
                    !.latitude = latitude, !.longitude = longitude,
                    !.store_type = store_type,
                    !.normalized_name = normalized(name),
                    !.normalized_address = normalized(address),
                    !.normalized_store_type = normalized_store_type_of(store_type)]
     : d \in db}

add_delivery_fee_finds_duplicate(db, location, zone) ==
    delivery_fees_where(db, normalized(location), normalized_zone_of(zone)) # {}

add_delivery_fee_write(db, now, location, delivery_charge, zone) ==
    db \cup {[id |-> now, location |-> location, delivery_charge |-> delivery_charge,
              zone |-> zone,
              normalized_location |-> normalized(location),
              normalized_zone |-> normalized_zone_of(zone),
              timestamp |-> now]}

update_delivery_fee_finds_duplicate(db, fee_id, location, zone) ==
    \E d \in delivery_fees_where(db, normalized(location), normalized_zone_of(zone)) :
        d.id # fee_id

update_delivery_fee_write(db, fee_id, location, delivery_charge, zone) ==
    {IF d.id # fee_id THEN d
     ELSE [d EXCEPT !.location = location, !.delivery_charge = delivery_charge,
                    !.zone = zone,
                    !.normalized_location = normalized(location),
                    !.normalized_zone = normalized_zone_of(zone)]
     : d \in db}

\* .document(id).delete(): deleting a document that is not there succeeds
delete_document(db, doc_id) == {d \in db : d.id # doc_id}

(***************************************************************************)
(* SpecStores: add_store_to_db, update_store_in_db and                     *)
(* delete_store_from_db called one after the other, each running to its    *)
(* end.  A return of "rerun" is add_store_to_db leaving through            *)
(* st.rerun() after its write: the script run ends there and the           *)
(* 'return True' after it is not reached.                                  *)
(***************************************************************************)
StoreNames     == {PyStr(AlBarshaBranch), PyStr(AlBarshaHyphen), PyStr(AlBarshaUpper)}
StoreAddresses == {PyStr(OneMainSt), PyStr(TwoMainSt)}
StoreTypes     == {PyStr(KCC), PyNone}
DocIds         == 1..MaxDocs

StoreCall(op, id, name, address) ==
    [op |-> op, id |-> id, name |-> name, address |-> address]

InitStores ==
    /\ stores = {} /\ delivery_fees = {} /\ clock = 1
    /\ last_call = StoreCall("none", 0, PyNone, PyNone) /\ last_return = "none"
    /\ NormIdle /\ RaceIdle /\ SearchIdle /\ FormIdle

AddStore ==
    \E name \in StoreNames, address \in StoreAddresses, store_type \in StoreTypes :
        /\ clock <= MaxDocs \/ add_store_finds_duplicate(stores, name, address)
        /\ last_call' = StoreCall("add_store", 0, name, address)
        /\ IF add_store_finds_duplicate(stores, name, address)
           THEN /\ last_return' = "False"
                /\ UNCHANGED <<stores, clock>>
           ELSE /\ stores' = add_store_write(stores, clock, name, address, 60, 60, store_type)
                /\ clock' = clock + 1
                /\ last_return' = "rerun"
        /\ UNCHANGED <<delivery_fees, norm_vars, form_vars, race_vars, search_vars>>

UpdateStore ==
    \E store_id \in DocIds, name \in StoreNames, address \in StoreAddresses,
       store_type \in StoreTypes :
        /\ last_call' = StoreCall("update_store", store_id, name, address)
        /\ IF update_store_finds_duplicate(stores, store_id, name, address)
           THEN /\ last_return' = "False"
                /\ UNCHANGED stores
           ELSE IF \A d \in stores : d.id # store_id
           THEN \* doc_ref.update raises NotFound, caught by the except clause
                /\ last_return' = "False"
                /\ UNCHANGED stores
           ELSE /\ stores' = update_store_write(stores, store_id, name, address, 60, 60, store_type)
                /\ last_return' = "True"
        /\ UNCHANGED <<delivery_fees, clock, norm_vars, form_vars, race_vars, search_vars>>

DeleteStore ==
    \E store_id \in DocIds :
        /\ last_call' = StoreCall("delete_store", store_id, PyNone, PyNone)
        /\ stores' = delete_document(stores, store_id)
        /\ last_return' = "True"
        /\ UNCHANGED <<delivery_fees, clock, norm_vars, form_vars, race_vars, search_vars>>

NextStores == AddStore \/ UpdateStore \/ DeleteStore
SpecStores == InitStores /\ [][NextStores]_vars

\* C1: no two documents of 'stores' share (normalized_name, normalized_address),
\* whether read from the stored fields or computed from name and address.
C1_UniqueStoreKeys ==
    \A d1, d2 \in stores :
        ( \/ (d1.normalized_name = d2.normalized_name
                /\ d1.normalized_address = d2.normalized_address)
          \/ (normalized(d1.name) = normalized(d2.name)
                /\ normalized(d1.address) = normalized(d2.address)) )
        => d1 = d2

C1_Witness ==
    /\ Cardinality(stores) = 2
    /\ last_call.op = "update_store"
    /\ last_return = "False"
    /\ \E d \in stores : d.id = last_call.id
    /\ \E d \in stores : d.id # last_call.id
            /\ d.normalized_name = normalized(last_call.name)
            /\ d.normalized_address = normalized(last_call.address)

\* C7: the names "Al Barsha Branch" and "al-barsha   branch" with one address
\* have equal normalized keys, and adding the second when the first is stored
\* returns False and leaves one record.
C7_HyphenatedNameRejected ==
    ( /\ last_call.op = "add_store"
      /\ last_call.name = PyStr(AlBarshaHyphen)
      /\ \E d \in stores : d.name = PyStr(AlBarshaBranch) /\ d.address = last_call.address )
    => ( /\ normalized(PyStr(AlBarshaBranch)) = normalized(PyStr(AlBarshaHyphen))
         /\ last_return = "False"
         /\ Cardinality({d \in stores : d.address = last_call.address}) = 1 )

(***************************************************************************)
(* SpecFees: add_delivery_fee_to_db, update_delivery_fee_in_db and         *)
(* delete_delivery_fee_from_db called one after the other.                 *)
(***************************************************************************)
FeeLocations == {PyStr(Downtown), PyStr(DowntownUpper), PyStr(Marina)}
FeeZones     == {PyNone, PyStr(<<>>), PyStr(Blank), PyStr(ZoneA)}
FeeCharges   == {10}

FeeCall(op, id, location, zone) ==
    [op |-> op, id |-> id, location |-> location, zone |-> zone]

InitFees ==
    /\ stores = {} /\ delivery_fees = {} /\ clock = 1
    /\ last_call = FeeCall("none", 0, PyNone, PyNone) /\ last_return = "none"
    /\ NormIdle /\ RaceIdle /\ SearchIdle /\ FormIdle

AddFee ==
    \E location \in FeeLocations, zone \in FeeZones, charge \in FeeCharges :
        /\ clock <= MaxDocs \/ add_delivery_fee_finds_duplicate(delivery_fees, location, zone)
        /\ last_call' = FeeCall("add_delivery_fee", 0, location, zone)
        /\ IF add_delivery_fee_finds_duplicate(delivery_fees, location, zone)
           THEN /\ last_return' = "False"
                /\ UNCHANGED <<delivery_fees, clock>>
           ELSE /\ delivery_fees' = add_delivery_fee_write(delivery_fees, clock,
                                                           location, charge, zone)
                /\ clock' = clock + 1
                /\ last_return' = "rerun"
        /\ UNCHANGED <<stores, norm_vars, form_vars, race_vars, search_vars>>

UpdateFee ==
    \E fee_id \in DocIds, location \in FeeLocations, zone \in FeeZones,
       charge \in FeeCharges :
        /\ last_call' = FeeCall("update_delivery_fee", fee_id, location, zone)
        /\ IF update_delivery_fee_finds_duplicate(delivery_fees, fee_id, location, zone)
           THEN /\ last_return' = "False"
                /\ UNCHANGED delivery_fees
           ELSE IF \A d \in delivery_fees : d.id # fee_id
           THEN \* doc_ref.update raises NotFound, caught by the except clause
                /\ last_return' = "False"
                /\ UNCHANGED delivery_fees
           ELSE /\ delivery_fees' = update_delivery_fee_write(delivery_fees, fee_id,
                                                              location, charge, zone)
                /\ last_return' = "True"
        /\ UNCHANGED <<stores, clock, norm_vars, form_vars, race_vars, search_vars>>

DeleteFee ==
    \E fee_id \in DocIds :
        /\ last_call' = FeeCall("delete_delivery_fee", fee_id, PyNone, PyNone)
        /\ delivery_fees' = delete_document(delivery_fees, fee_id)
        /\ last_return' = "True"
        /\ UNCHANGED <<stores, clock, norm_vars, form_vars, race_vars, search_vars>>

NextFees == AddFee \/ UpdateFee \/ DeleteFee
SpecFees == InitFees /\ [][NextFees]_vars

\* the normalized key of a fee record, an absent or empty zone counting as ""
FeeKey(d) ==
    <<normalized(d.location),
      IF d.zone = PyNone \/ d.zone = PyStr(<<>>) THEN PyStr(<<>>)
      ELSE normalized(d.zone)>>

\* C2: no two documents of 'delivery_fees' share (normalized_location,
\* normalized_zone), an absent or empty zone counting as the normalized zone "".
C2_UniqueFeeKeys ==
    /\ \A d \in delivery_fees :
            <<d.normalized_location, d.normalized_zone>> = FeeKey(d)
    /\ \A d1, d2 \in delivery_fees : FeeKey(d1) = FeeKey(d2) => d1 = d2

C2_Witness ==
    /\ Cardinality(delivery_fees) = 2
    /\ last_call.op = "add_delivery_fee"
    /\ last_call.zone = PyNone
    /\ last_return = "False"
    /\ \E d \in delivery_fees : d.zone = PyStr(Blank) /\ d.normalized_zone = PyStr(<<>>)
            /\ d.normalized_location = normalized(last_call.location)

(***************************************************************************)
(* SpecRace: several sessions run add_store_to_db or                       *)
(* add_delivery_fee_to_db at once.  Each call is two requests to           *)
(* Firestore: the query of the duplicate check, then the set() of the new  *)
(* document; requests of different callers interleave.                     *)
(***************************************************************************)
NumCallers == 2
Callers    == 1..NumCallers

RaceStoreNames   == {PyStr(AlBarshaBranch), PyStr(AlBarshaUpper), PyStr(AlBarshaHyphen)}
RaceFeeLocations == {PyStr(Downtown), PyStr(DowntownUpper), PyStr(Marina)}

AddArgs(kind, first, second) == [kind |-> kind, first |-> first, second |-> second]

InitRace ==
    /\ stores = {} /\ delivery_fees = {} /\ clock = 1
    /\ last_call = [op |-> "none"] /\ last_return = "none"
    /\ pc = [c \in Callers |-> "start"]
    /\ call_args = [c \in Callers |-> AddArgs("none", PyNone, PyNone)]
    /\ passed_check = [c \in Callers |-> FALSE]
    /\ NormIdle /\ SearchIdle /\ FormIdle

\* add_store_to_db up to the duplicate check and its early return
StoreCheck(c) ==
    \E name \in RaceStoreNames :
        LET address == PyStr(OneMainSt)
            dup == add_store_finds_duplicate(stores, name, address)
        IN  /\ pc[c] = "start"
            /\ call_args' = [call_args EXCEPT ![c] = AddArgs("store", name, address)]
            /\ passed_check' = [passed_check EXCEPT ![c] = ~dup]
            /\ pc' = [pc EXCEPT ![c] = IF dup THEN "done" ELSE "checked"]
            /\ UNCHANGED <<db_vars, norm_vars, form_vars, search_vars>>

\* add_store_to_db from doc_ref.set on
StoreWrite(c) ==
    /\ pc[c] = "checked"
    /\ call_args[c].kind = "store"
    /\ stores' = add_store_write(stores, clock, call_args[c].first,
                                 call_args[c].second, 60, 60, PyStr(KCC))
    /\ clock' = clock + 1
    /\ pc' = [pc EXCEPT ![c] = "done"]
    /\ UNCHANGED <<delivery_fees, last_call, last_return, call_args, passed_check,
                   norm_vars, form_vars, search_vars>>

\* add_delivery_fee_to_db up to the duplicate check and its early return
FeeCheck(c) ==
    \E location \in RaceFeeLocations :
        LET zone == PyStr(<<>>)
            dup == add_delivery_fee_finds_duplicate(delivery_fees, location, zone)
        IN  /\ pc[c] = "start"
            /\ call_args' = [call_args EXCEPT ![c] = AddArgs("fee", location, zone)]
            /\ passed_check' = [passed_check EXCEPT ![c] = ~dup]
            /\ pc' = [pc EXCEPT ![c] = IF dup THEN "done" ELSE "checked"]
            /\ UNCHANGED <<db_vars, norm_vars, form_vars, search_vars>>

\* add_delivery_fee_to_db from doc_ref.set on
FeeWrite(c) ==
    /\ pc[c] = "checked"
    /\ call_args[c].kind = "fee"
    /\ delivery_fees' = add_delivery_fee_write(delivery_fees, clock, call_args[c].first,
                                               10, call_args[c].second)
    /\ clock' = clock + 1
    /\ pc' = [pc EXCEPT ![c] = "done"]
    /\ UNCHANGED <<stores, last_call, last_return, call_args, passed_check,
                   norm_vars, form_vars, search_vars>>

NextRace == \E c \in Callers : StoreCheck(c) \/ StoreWrite(c) \/ FeeCheck(c) \/ FeeWrite(c)
SpecRace == InitRace /\ [][NextRace]_vars

\* the documents of the collection a caller adds to that hold its normalized key
DocsWithKeyOf(c) ==
    IF call_args[c].kind = "store"
    THEN stores_where(stores, normalized(call_args[c].first), normalized(call_args[c].second))
    ELSE delivery_fees_where(delivery_fees, normalized(call_args[c].first),
                             normalized_zone_of(call_args[c].second))

SameKey(c1, c2) ==
    /\ call_args[c1].kind = call_args[c2].kind
    /\ normalized(call_args[c1].first) = normalized(call_args[c2].first)
    /\ normalized(call_args[c1].second) = normalized(call_args[c2].second)

\* C3: when two callers adding the same normalized key have both passed the
\* duplicate check, both writes go through: once both calls are over, the
\* collection holds two records with that key.
C3_BothInsert ==
    \A c1, c2 \in Callers :
        ( /\ c1 # c2
          /\ pc[c1] = "done" /\ pc[c2] = "done"
          /\ passed_check[c1] /\ passed_check[c2]
          /\ SameKey(c1, c2) )
        => Cardinality(DocsWithKeyOf(c1)) >= 2

C3_Witness ==
    /\ \A c \in Callers : pc[c] = "done" /\ passed_check[c] /\ call_args[c].kind = "store"
    /\ \E d1, d2 \in stores :
            /\ d1.id # d2.id
            /\ d1.name = PyStr(AlBarshaBranch) /\ d2.name = PyStr(AlBarshaUpper)
            /\ d1.normalized_name = d2.normalized_name
            /\ d1.normalized_address = d2.normalized_address

(***************************************************************************)
(* The nearest-store search.  Coordinates are whole degrees, multiples of  *)
(* 60, where the haversine formula is exact: with h(d) = sin^2(d/2),       *)
(* 4*h(d) is 0, 1, 3, 4 for d = 0, 60, 120, 180 degrees, and 2*cos(lat)    *)
(* is 1, 2 for lat = 60, 0 degrees.  The central angle comes in            *)
(* thousandths of a radian, the distance in metres.                        *)
(***************************************************************************)
R == 6371

\* 4 * sin(d / 2)**2 for d degrees
FourSinSqHalf(d) ==
    CASE d % 360 = 0   -> 0
      [] d % 360 = 60  -> 1
      [] d % 360 = 120 -> 3
      [] d % 360 = 180 -> 4
      [] d % 360 = 240 -> 3
      [] d % 360 = 300 -> 1

\* 2 * cos(lat) for lat degrees
TwoCos(lat) ==
    CASE lat = 0 -> 2
      [] lat = 60 \/ lat = -60 -> 1
      [] lat = 120 -> -1

\* 1000 * 2 * atan2(sqrt(a), sqrt(1 - a)) for a = a16 / 16, rounded
CentralAngleMilli == <<0, 505, 723, 896, 1047, 1186, 1318, 1445, 1571,
                       1696, 1823, 1955, 2094, 2246, 2419, 2636, 3142>>

haversine_cos_lat1_twice(lat1, lon1, lat2, lon2) ==
    LET dlon == lon2 - lon1
        dlat == lat2 - lat1
        a16  == 4 * FourSinSqHalf(dlat) + TwoCos(lat1) * TwoCos(lat1) * FourSinSqHalf(dlon)
    IN  R * CentralAngleMilli[a16 + 1]

haversine(lat1, lon1, lat2, lon2) ==
    LET dlon == lon2 - lon1
        dlat == lat2 - lat1
        a16  == 4 * FourSinSqHalf(dlat) + TwoCos(lat1) * TwoCos(lat2) * FourSinSqHalf(dlon)
    IN  R * CentralAngleMilli[a16 + 1]

\* the documents of db as rows, newest first: sort_values(by='timestamp',
\* ascending=False); the server clock gives each document its own timestamp
RECURSIVE fetch_stores_from_db_local(_)
fetch_stores_from_db_local(db) ==
    IF db = {} THEN <<>>
    ELSE LET newest == CHOOSE d \in db : \A e \in db : e.timestamp <= d.timestamp
         IN  <<newest>> \o fetch_stores_from_db_local(db \ {newest})

filter_keeps_every_row(rows, normalized_filter_type) == rows

\* filtered_stores[filtered_stores['normalized_store_type'] == normalized_filter_type]
filter_by_type(rows, normalized_filter_type) ==
    SelectSeq(rows, LAMBDA d : d.normalized_store_type = normalized_filter_type)

\* filtered_stores['distance_km'] = filtered_stores.apply(haversine ...)
with_distance(rows, lat, lon) ==
    [i \in 1..Len(rows) |->
        [id |-> rows[i].id,
         distance_km |-> haversine(lat, lon, rows[i].latitude, rows[i].longitude)]]

\* every way to put row x into the sorted rows t that keeps them sorted
InsertSorted(t, x) ==
    {SubSeq(t, 1, p) \o <<x>> \o SubSeq(t, p + 1, Len(t)) :
        p \in {q \in 0..Len(t) :
                 /\ \A i \in 1..q : t[i].distance_km <= x.distance_km
                 /\ \A i \in (q + 1)..Len(t) : x.distance_km <= t[i].distance_km}}

sort_values_left_unsorted(rows) == {rows}

\* sort_values(by='distance_km'): the default kind, quicksort, is not stable,
\* so rows at the same distance may come out in any order
RECURSIVE sort_values(_)
sort_values(rows) ==
    IF rows = <<>> THEN {<<>>}
    ELSE UNION {InsertSorted(t, Head(rows)) : t \in sort_values(Tail(rows))}

\* .head(n)
head(rows, n) == SubSeq(rows, 1, IF Len(rows) < n THEN Len(rows) ELSE n)

(***************************************************************************)
(* SpecSearch: stores are added, and the Search Stores tab runs a search   *)
(* on the rows fetched at the start of the script run.  An add ends in     *)
(* st.rerun(): the next run fetches stores_df again and, on the Add/Edit   *)
(* tab, shows no search result.                                            *)
(***************************************************************************)
MaxListed == 4

\* the k-th store added: stores of different name or address
ListedStores == <<
    [name |-> PyStr(AlBarshaBranch), address |-> PyStr(OneMainSt)],
    [name |-> PyStr(AlBarshaHyphen), address |-> PyStr(OneMainSt)],
    [name |-> PyStr(AlBarshaBranch), address |-> PyStr(TwoMainSt)],
    [name |-> PyStr(AlBarshaHyphen), address |-> PyStr(TwoMainSt)],
    [name |-> PyStr(Marina),         address |-> PyStr(OneMainSt)],
    [name |-> PyStr(Marina),         address |-> PyStr(TwoMainSt)] >>

Point(lat, lon) == [lat |-> PyInt(lat), lon |-> PyInt(lon)]
StorePoints == {Point(60, 120), Point(-60, 60)}
ListedTypes == {PyStr(KCC), PyNone}
\* where a store is put and the type it is given: a store without a type
\* is put at the first point
ListedChoices ==
    {c \in [at : StorePoints, store_type : ListedTypes] :
        c.store_type = PyNone => c.at = Point(60, 120)}

\* what the geocoding request of the search address meets: a location, a
\* status that is not OK, a transport failure.  A latitude of 120 is a
\* location no address has.
GeocodeResponses ==
    {GeocodeResponse("OK", PyInt(60), PyInt(60)),
     GeocodeResponse("OK", PyInt(0), PyInt(60)),
     GeocodeResponse("OK", PyInt(120), PyInt(60)),
     GeocodeResponse("ZERO_RESULTS", PyNone, PyNone),
     GeocodeResponse("RequestException", PyNone, PyNone)}

get_coordinates_or_default(response) ==
    IF response.kind = "OK"
    THEN [lat |-> response.lat, lon |-> response.lng]
    ELSE [lat |-> PyInt(60), lon |-> PyInt(60)]

\* get_coordinates_from_address with an API key configured: the location of
\* an OK response, (None, None) after st.error for every other response
get_coordinates_from_address(response) ==
    IF response.kind = "OK"
    THEN [lat |-> response.lat, lon |-> response.lng]
    ELSE [lat |-> PyNone, lon |-> PyNone]

coordinates_taken_as_found(lat, lon) == TRUE

\* if lat and lon / if st.session_state.user_lat and st.session_state.user_lon
coordinates_found(lat, lon) == Truthy(lat) /\ Truthy(lon)

\* what get_coordinates_from_address returns for the search address:
\* (None, None), or the coordinates found
GeocodeResults == {get_coordinates_from_address(r) : r \in GeocodeResponses}

\* the columns of a frame: pd.DataFrame([]) has none
columns_of(df) == IF df = <<>> THEN {} ELSE DOMAIN df[1]

assign_without_copy(session_columns, column) == session_columns \cup {column}

\* filtered_stores = st.session_state.stores_df.copy(): a column assigned to
\* filtered_stores is a column of the copy, the session's frame keeps its own
copy_then_assign(session_columns, column) == session_columns
SearchTypes == {AllStores, KCC}

InitSearch ==
    /\ stores = {} /\ delivery_fees = {} /\ clock = 1
    /\ last_call = StoreCall("none", 0, PyNone, PyNone) /\ last_return = "none"
    /\ SearchIdle /\ NormIdle /\ RaceIdle /\ FormIdle

ListStore ==
    \E choice \in ListedChoices :
        LET at == choice.at
            store_type == choice.store_type
            name == ListedStores[clock].name
            address == ListedStores[clock].address
        IN  /\ clock <= MaxListed
            /\ ~add_store_finds_duplicate(stores, name, address)
            /\ stores' = add_store_write(stores, clock, name, address,
                                         at.lat.n, at.lon.n, store_type)
            /\ clock' = clock + 1
            /\ last_call' = StoreCall("add_store", 0, name, address)
            /\ last_return' = "rerun"
            /\ stores_df' = fetch_stores_from_db_local(stores')
            /\ stores_df_columns' = columns_of(stores_df')
            /\ search_outcome' = "idle"
            /\ top_three_stores' = <<>>
            /\ filtered_stores' = <<>>
            /\ route_requests' = 0
            /\ UNCHANGED <<delivery_fees, user_lat, user_lon, store_search_type,
                           geocode_response, norm_vars, form_vars, race_vars>>

SearchStores ==
    \E response \in GeocodeResponses, selected \in SearchTypes :
        LET geo == get_coordinates_from_address(response)
            df == fetch_stores_from_db_local(stores)
            filtered == IF selected # AllStores
                        THEN filter_by_type(df, normalized(PyStr(selected)))
                        ELSE df
        IN  /\ stores_df' = df
            /\ geocode_response' = response
            /\ user_lat' = geo.lat
            /\ user_lon' = geo.lon
            /\ store_search_type' = selected
            /\ IF ~coordinates_found(geo.lat, geo.lon)
               THEN /\ search_outcome' = "no_coordinates"
                    /\ top_three_stores' = <<>> /\ filtered_stores' = <<>>
                    /\ stores_df_columns' = columns_of(df)
               ELSE IF selected # AllStores /\ "normalized_store_type" \notin columns_of(df)
               THEN \* a frame built from no documents has no columns: KeyError
                    /\ search_outcome' = "KeyError"
                    /\ top_three_stores' = <<>> /\ filtered_stores' = <<>>
                    /\ stores_df_columns' = columns_of(df)
               ELSE IF filtered = <<>>
               THEN /\ search_outcome' = "no_stores"
                    /\ top_three_stores' = <<>> /\ filtered_stores' = <<>>
                    /\ stores_df_columns' = columns_of(df)
               ELSE /\ search_outcome' = "results"
                    /\ filtered_stores' = filtered
                    /\ stores_df_columns' = copy_then_assign(columns_of(df), "distance_km")
                    /\ top_three_stores' \in
                            {head(sorted, 3) : sorted \in
                                sort_values(with_distance(filtered, geo.lat.n, geo.lon.n))}
            \* get_route_details is called for every row shown, once for its
            \* travel time and once for its route layer
            /\ route_requests' = 2 * Len(top_three_stores')
            /\ UNCHANGED <<db_vars, norm_vars, form_vars, race_vars>>

NextSearch == ListStore \/ SearchStores
SpecSearch == InitSearch /\ [][NextSearch]_vars

\* the rows of stores_df that the type filter of the search lets through
Candidates ==
    {stores_df[i] : i \in {j \in 1..Len(stores_df) :
        store_search_type = AllStores
        \/ stores_df[j].normalized_store_type = normalized(PyStr(store_search_type))}}

DistanceTo(d) == haversine(user_lat.n, user_lon.n, d.latitude, d.longitude)

\* C10: a search that ranks returns min(3, number of candidates) stores, each
\* a candidate listed once with its distance to the user, in non-decreasing
\* order of distance, and no candidate left out is nearer than one returned.
C10_NearestThree ==
    search_outcome = "results" =>
        LET top == top_three_stores
            n == Cardinality(Candidates)
            shown == {top[i].id : i \in 1..Len(top)}
        IN  /\ Len(top) = IF n < 3 THEN n ELSE 3
            /\ Cardinality(shown) = Len(top)
            /\ \A i \in 1..Len(top) :
                    \E d \in Candidates :
                        d.id = top[i].id /\ top[i].distance_km = DistanceTo(d)
            /\ \A i \in 1..(Len(top) - 1) : top[i].distance_km <= top[i + 1].distance_km
            /\ \A d \in Candidates : d.id \notin shown =>
                    \A i \in 1..Len(top) : top[i].distance_km <= DistanceTo(d)

C10_Witness ==
    /\ search_outcome = "results"
    /\ store_search_type = KCC
    /\ Cardinality(Candidates) = 4
    /\ Len(top_three_stores) = 3
    /\ top_three_stores[1].distance_km = top_three_stores[2].distance_km
    /\ top_three_stores[2].distance_km < top_three_stores[3].distance_km
    /\ \E d \in Candidates : d.id \notin {top_three_stores[i].id : i \in 1..3}
            /\ DistanceTo(d) = top_three_stores[3].distance_km

\* the place of the row with this id in stores_df, the input of the search
PositionOf(id) == CHOOSE i \in 1..Len(stores_df) : stores_df[i].id = id

\* C11: of two candidates at the same distance the search ranks the one that
\* comes earlier in stores_df first: rows shown at equal distance are in the
\* order of stores_df, and a candidate left out at the distance of a row shown
\* comes after that row in stores_df.
C11_TiesKeepInputOrder ==
    search_outcome = "results" =>
        LET top == top_three_stores
            shown == {top[i].id : i \in 1..Len(top)}
        IN  /\ \A i, j \in 1..Len(top) :
                    (i < j /\ top[i].distance_km = top[j].distance_km)
                        => PositionOf(top[i].id) < PositionOf(top[j].id)
            /\ \A d \in Candidates : d.id \notin shown =>
                    \A i \in 1..Len(top) :
                        top[i].distance_km = DistanceTo(d)
                            => PositionOf(top[i].id) < PositionOf(d.id)

\* the ids of the rows the search ranked
RankedIds == {filtered_stores[i].id : i \in 1..Len(filtered_stores)}

\* C12: a search that gets as far as the ranking ranks, under a selected type
\* other than "All Stores", exactly the stores whose store_type normalizes to
\* normalize_string(selected type), and under "All Stores" every store.
C12_FilterByType ==
    search_outcome \in {"results", "no_stores"} =>
        RankedIds =
            IF store_search_type = AllStores
            THEN {d.id : d \in stores}
            ELSE {d.id : d \in {e \in stores :
                        /\ e.store_type.tag = "str"
                        /\ normalize_string(e.store_type)
                                = normalize_string(PyStr(store_search_type))}}

C12_Witness ==
    /\ search_outcome = "results"
    /\ store_search_type = KCC
    /\ Cardinality(RankedIds) = 2
    /\ Cardinality(stores) = 3
    /\ \E d \in stores : d.store_type = PyNone /\ d.id \notin RankedIds

\* C13: a search that found the user's coordinates and has no candidate ends
\* in the "no stores" outcome, with nothing ranked and no error.
C13_EmptyResultNoError ==
    (/\ search_outcome # "idle"
     /\ Truthy(user_lat) /\ Truthy(user_lon)
     /\ Candidates = {})
        => (search_outcome = "no_stores" /\ top_three_stores = <<>>)

\* C14: a step that runs a search leaves both collections, the rows of
\* stores_df and the columns of stores_df as they were.
C14_SearchWritesNothing ==
    [][search_outcome' # "idle" =>
            /\ stores' = stores
            /\ delivery_fees' = delivery_fees
            /\ stores_df' = stores_df
            /\ stores_df_columns' = stores_df_columns]_vars

C14_Witness ==
    /\ search_outcome = "results"
    /\ store_search_type = AllStores
    /\ Len(stores_df) = 3
    /\ Len(filtered_stores) = Len(stores_df)
    /\ "latitude" \in stores_df_columns
    /\ "distance_km" \notin stores_df_columns

\* C18: a search whose geocoding request failed in transport holds, in
\* user_lat and user_lon, a result other than the one a request answered
\* with a status that is not OK gives.
C18_NotFoundUnlikeError ==
    geocode_response.kind = "RequestException" =>
        \A r \in GeocodeResponses :
            r.kind = "ZERO_RESULTS" =>
                get_coordinates_from_address(r) # [lat |-> user_lat, lon |-> user_lon]

\* latitude within [-90, 90] and longitude within [-180, 180]
InRange(lat, lon) == -90 <= lat /\ lat <= 90 /\ -180 <= lon /\ lon <= 180

\* C19: a search that has candidates and a user coordinate out of range ends
\* in an error and ranks nothing.
C19_InvalidCoordinatesFail ==
    (/\ search_outcome # "idle"
     /\ user_lat.tag = "int" /\ user_lon.tag = "int"
     /\ ~InRange(user_lat.n, user_lon.n)
     /\ Candidates # {})
        => (search_outcome = "InvalidInput" /\ top_three_stores = <<>>)

\* C16: in every document of 'stores' the normalized fields are
\* normalize_string of the fields they derive from, and the normalized type
\* of a store without a type is None.
C16_DerivedFieldsCurrent ==
    \A d \in stores :
        /\ d.normalized_name = normalized(d.name)
        /\ d.normalized_address = normalized(d.address)
        /\ d.normalized_store_type =
                IF d.store_type = PyNone THEN PyNone ELSE normalized(d.store_type)

C16_Witness ==
    /\ last_call.op = "update_store" /\ last_return = "True"
    /\ \E d \in stores :
        /\ d.id = last_call.id /\ d.id = 1
        /\ d.name = PyStr(AlBarshaHyphen) /\ d.address = PyStr(TwoMainSt)
        /\ d.store_type = PyNone
        /\ d.normalized_name = normalize_string(PyStr(AlBarshaHyphen))
        /\ d.normalized_address = normalize_string(PyStr(TwoMainSt))
        /\ d.normalized_store_type = PyNone
    /\ Cardinality(stores) = 2

(***************************************************************************)
(* SpecForms: the Add/Edit forms of the stores page and of the delivery    *)
(* fee page, with the edit, cancel and delete buttons of the lists under   *)
(* them and the tab radio of the fee page.  A step is one event: its       *)
(* callback, then the script run that follows, to its end.  Every run      *)
(* starts by fetching both lists through st.cache_data (App.py:393-394).   *)
(* The tab of the stores page changes nothing the steps read and is left   *)
(* out.                                                                    *)
(***************************************************************************)
SECURITY_PIN == "123456"

pin_is_missing(user_pin) == user_pin = ""

\* if user_pin != SECURITY_PIN
pin_is_incorrect(user_pin) == user_pin # SECURITY_PIN

name_is_missing(name, address) == ~Truthy(name)

\* elif not name or not address
required_is_missing(name, address) == ~Truthy(name) \/ ~Truthy(address)

\* re.match(CONTACT_NUMBER_PATTERN, s): ^\+?[0-9\s()\s-]{7,15}$
contact_number_matches(s) ==
    LET body == IF s # <<>> /\ s[1] = "+" THEN Tail(s) ELSE s
    IN  /\ Len(body) >= 7 /\ Len(body) <= 15
        /\ \A i \in 1..Len(body) : body[i] \in Digits \cup Whitespace \cup {"(", ")", "-"}

\* the pieces of STORE_HOURS_PATTERN, each taking the positions a match may
\* have reached to the positions it may reach next
DigitAt(s, p) == p <= Len(s) /\ s[p] \in Digits
AfterHour(s, P) ==
    {p + 1 : p \in {q \in P : DigitAt(s, q)}}
        \cup {p + 2 : p \in {q \in P : DigitAt(s, q) /\ DigitAt(s, q + 1)}}
AfterMinutes(s, P) ==
    P \cup {p + 3 : p \in {q \in P : /\ q <= Len(s) /\ s[q] = ":"
                                     /\ DigitAt(s, q + 1) /\ DigitAt(s, q + 2)}}
AfterSpaces(s, P) ==
    {q \in 1..(Len(s) + 1) :
        \E p \in P : p <= q /\ \A i \in p..(q - 1) : s[i] \in Whitespace}
AfterMeridiem(s, P) ==
    P \cup {p + 2 : p \in {q \in P : /\ q + 1 <= Len(s)
                                     /\ s[q] \in {"A", "P"} /\ s[q + 1] = "M"}}
AfterDash(s, P) == {p + 1 : p \in {q \in P : q <= Len(s) /\ s[q] = "-"}}
AfterTime(s, P) == AfterMeridiem(s, AfterSpaces(s, AfterMinutes(s, AfterHour(s, P))))

\* re.match(STORE_HOURS_PATTERN, s):
\* ^\d{1,2}(:\d{2})?\s*([AP]M)?\s*-\s*\d{1,2}(:\d{2})?\s*([AP]M)?$
store_hours_matches(s) ==
    (Len(s) + 1) \in AfterTime(s, AfterSpaces(s, AfterDash(s, AfterSpaces(s, AfterTime(s, {1})))))

SelectStatus == <<"-","-","-"," ","S","e","l","e","c","t"," ","S","t","a","t","u","s"," ","-","-","-">>
Operational  == <<"O","p","e","r","a","t","i","o","n","a","l">>
SelectType   == <<"-","-","-"," ","S","e","l","e","c","t"," ","T","y","p","e"," ","-","-","-">>
ContactValid == <<"+","9","7","1"," ","5","0"," ","1","2","3"," ","4","5","6","7">>
ContactShort == <<"1","2","3","4","5">>
HoursValid   == <<"9"," ","A","M"," ","-"," ","1","0"," ","P","M">>
HoursWords   == <<"9"," ","t","o"," ","5">>

Pins           == {SECURITY_PIN, "", "12345"}
FormNames      == {PyStr(<<>>), PyStr(AlBarshaBranch), PyStr(AlBarshaHyphen)}
FormAddresses  == {PyStr(<<>>), PyStr(OneMainSt)}
FormStatuses   == {SelectStatus, Operational}
FormTypes      == {SelectType, KCC}
FormContacts   == {<<>>, ContactValid, ContactShort}
FormHours      == {<<>>, HoursValid, HoursWords}
FormGeocodes   == {GeocodeResponse("OK", PyInt(60), PyInt(120)),
                   GeocodeResponse("OK", PyInt(0), PyInt(60)),
                   GeocodeResponse("ZERO_RESULTS", PyNone, PyNone)}
FormLocations  == {PyStr(<<>>), PyStr(Downtown)}
FormZones      == {PyStr(<<>>), PyStr(ZoneA)}

\* fetch_delivery_fees_from_db_local: the documents of db as rows, newest first
RECURSIVE fetch_delivery_fees_from_db_local(_)
fetch_delivery_fees_from_db_local(db) ==
    IF db = {} THEN <<>>
    ELSE LET newest == CHOOSE d \in db : \A e \in db : e.timestamp <= d.timestamp
         IN  <<newest>> \o fetch_delivery_fees_from_db_local(db \ {newest})

\* @st.cache_data(ttl=3600) on a fetch function: the frame cached when there
\* is one, else what the function body reads from the collection
cache_data(cache, read) == IF cache.hit THEN cache.df ELSE read

cache_data_kept(cache) == cache

\* st.cache_data.clear(): the entry is dropped
cache_data_clear(cache) == NotCached

clear_edit_state_id_only(editing) == [editing EXCEPT !.id = PyNone]

\* editing_*_id = None; editing_*_details = {}
clear_edit_state(editing) == [id |-> PyNone, details |-> EmptyDict]

pending_fee_edit_kept(tab, editing) == editing

\* on_radio_change: if the tab selected is "Search/View", clear any pending edit
pending_fee_edit_after(tab, editing) ==
    IF tab = "Search/View" THEN clear_edit_state(editing) ELSE editing

update_store_in_db_write_first(db, store_id, name, address, latitude, longitude, store_type) ==
    IF update_store_finds_duplicate(db, store_id, name, address)
    THEN [returned |-> FALSE,
          db |-> update_store_write(db, store_id, name, address, latitude, longitude, store_type)]
    ELSE IF \A d \in db : d.id # store_id
    THEN [returned |-> FALSE, db |-> db]
    ELSE [returned |-> TRUE,
          db |-> update_store_write(db, store_id, name, address, latitude, longitude, store_type)]

\* update_store_in_db: what it returns and the collection it leaves.  It
\* returns False at a duplicate, and False from its except clause when
\* doc_ref.update raises NotFound for a document that is not there.
update_store_in_db(db, store_id, name, address, latitude, longitude, store_type) ==
    IF update_store_finds_duplicate(db, store_id, name, address)
    THEN [returned |-> FALSE, db |-> db]
    ELSE IF \A d \in db : d.id # store_id
    THEN [returned |-> FALSE, db |-> db]
    ELSE [returned |-> TRUE,
          db |-> update_store_write(db, store_id, name, address, latitude, longitude, store_type)]

InitForms ==
    /\ stores = {} /\ delivery_fees = {} /\ clock = 1
    /\ last_call = [op |-> "none"] /\ last_return = "none"
    /\ FormIdle /\ NormIdle /\ RaceIdle /\ SearchIdle

\* what no step of the Add/Edit pages changes
FormsFrame ==
    UNCHANGED <<last_call, last_return, norm_vars, race_vars, user_lat, user_lon,
                store_search_type, search_outcome, top_three_stores,
                filtered_stores, route_requests>>

\* one run of the script to its end: both lists are fetched through the
\* cache (sc, fc: the cache entries when the run starts; sdb, fdb: the
\* collections it reads) and stay cached
ScriptRuns(sc, fc, sdb, fdb) ==
    /\ stores_df' = cache_data(sc, fetch_stores_from_db_local(sdb))
    /\ stores_df_columns' = columns_of(stores_df')
    /\ stores_cache' = Cached(stores_df')
    /\ delivery_fees_df' = cache_data(fc, fetch_delivery_fees_from_db_local(fdb))
    /\ delivery_fees_cache' = Cached(delivery_fees_df')

\* the run handles no form: it submits nothing and geocodes nothing
NoFormHandled ==
    /\ submission' = NoSubmission
    /\ geocode_response' = NoRequest

\* a script run started by something that has no callback: another page of
\* the sidebar, the other tab of the stores page, a search box
PageRun ==
    /\ NoFormHandled
    /\ ScriptRuns(stores_cache, delivery_fees_cache, stores, delivery_fees)
    /\ UNCHANGED <<stores, delivery_fees, clock, editing_store_id, editing_store_details,
                   editing_delivery_fee_id, editing_delivery_fee_details,
                   selected_delivery_tab>>
    /\ FormsFrame

\* the store submission returns from its handler with the collection db and
\* the run goes on to its end
StoreFormEnds(user_pin, outcome, response, db) ==
    /\ submission' = Submission("store", user_pin, outcome)
    /\ geocode_response' = response
    /\ stores' = db
    /\ ScriptRuns(stores_cache, delivery_fees_cache, stores, delivery_fees)
    /\ UNCHANGED <<clock, editing_store_id, editing_store_details>>

\* the else branch of the Add/Edit Stores handler: geocode the address, then
\* update_store_in_db (and clear_store_edit_state when it returns True) or
\* add_store_to_db, which leaves through st.rerun() after its write
StoreFormSaves(user_pin, name, address, store_type) ==
    \E response \in FormGeocodes :
        LET geo == get_coordinates_from_address(response)
            final_store_type == IF store_type = SelectType THEN PyNone ELSE PyStr(store_type)
            is_edit_mode == editing_store_id # PyNone
            \* the frames this run fetched when it started
            run_stores_df == cache_data(stores_cache, fetch_stores_from_db_local(stores))
            run_fees_df == cache_data(delivery_fees_cache,
                                      fetch_delivery_fees_from_db_local(delivery_fees))
        IN  IF ~coordinates_found(geo.lat, geo.lon)
            THEN StoreFormEnds(user_pin, "no_coordinates", response, stores)
            ELSE IF is_edit_mode
            THEN LET updated == update_store_in_db(stores, editing_store_id.n, name, address,
                                                   geo.lat.n, geo.lon.n, final_store_type)
                     cleared == clear_edit_state([id |-> editing_store_id,
                                                  details |-> editing_store_details])
                 IN  IF ~updated.returned
                     THEN StoreFormEnds(user_pin, "update_returned_False", response, updated.db)
                     ELSE /\ stores' = updated.db
                          /\ stores_cache' = cache_data_clear(Cached(run_stores_df))
                          /\ delivery_fees_cache' = cache_data_clear(Cached(run_fees_df))
                          /\ editing_store_id' = cleared.id
                          /\ editing_store_details' = cleared.details
                          /\ submission' = Submission("store", user_pin, "updated")
                          /\ geocode_response' = response
                          \* the lists under the form are those fetched before the update
                          /\ stores_df' = run_stores_df
                          /\ stores_df_columns' = columns_of(run_stores_df)
                          /\ delivery_fees_df' = run_fees_df
                          /\ UNCHANGED clock
            ELSE IF add_store_finds_duplicate(stores, name, address)
                 THEN StoreFormEnds(user_pin, "add_returned_False", response, stores)
                 ELSE /\ clock <= MaxDocs
                      /\ stores' = add_store_write(stores, clock, name, address,
                                                   geo.lat.n, geo.lon.n, final_store_type)
                      /\ clock' = clock + 1
                      /\ submission' = Submission("store", user_pin, "added")
                      /\ geocode_response' = response
                      /\ ScriptRuns(cache_data_clear(Cached(run_stores_df)),
                                    cache_data_clear(Cached(run_fees_df)),
                                    stores', delivery_fees)
                      /\ UNCHANGED <<editing_store_id, editing_store_details>>

\* elif contact_number and not re.match(CONTACT_NUMBER_PATTERN, contact_number)
ContactRejected(contact_number) ==
    contact_number # <<>> /\ ~contact_number_matches(contact_number)
\* elif store_hours and not re.match(STORE_HOURS_PATTERN, store_hours)
HoursRejected(store_hours) ==
    store_hours # <<>> /\ ~store_hours_matches(store_hours)

\* the two checks on the values the forms enter, computed once
contact_rejected == [contact_number \in FormContacts |-> ContactRejected(contact_number)]
hours_rejected   == [store_hours \in FormHours |-> HoursRejected(store_hours)]

\* what is entered into the Add/Edit Stores form
StoreForm(user_pin, name, address, store_status, store_type, contact_number, store_hours) ==
    [user_pin |-> user_pin, name |-> name, address |-> address,
     store_status |-> store_status, store_type |-> store_type,
     contact_number |-> contact_number, store_hours |-> store_hours]

\* a form that passes every check
GoodStoreForm ==
    StoreForm(SECURITY_PIN, PyStr(AlBarshaBranch), PyStr(OneMainSt), Operational, KCC,
              ContactValid, HoursValid)

\* the forms submitted: every name with every type, and the good form with
\* one entry changed
StoreForms ==
    {[GoodStoreForm EXCEPT !.name = name, !.store_type = store_type] :
        name \in FormNames, store_type \in FormTypes}
    \cup {[GoodStoreForm EXCEPT !.user_pin = user_pin] : user_pin \in Pins}
    \cup {[GoodStoreForm EXCEPT !.address = address] : address \in FormAddresses}
    \cup {[GoodStoreForm EXCEPT !.store_status = store_status] : store_status \in FormStatuses}
    \cup {[GoodStoreForm EXCEPT !.contact_number = contact_number] :
                contact_number \in FormContacts}
    \cup {[GoodStoreForm EXCEPT !.store_hours = store_hours] : store_hours \in FormHours}

\* if submit_button: of the Add/Edit Stores form
SubmitStore ==
    /\ \E form \in StoreForms :
        LET is_edit_mode == editing_store_id # PyNone
        IN  IF pin_is_incorrect(form.user_pin)
            THEN StoreFormEnds(form.user_pin, "incorrect_pin", NoRequest, stores)
            ELSE IF required_is_missing(form.name, form.address)
            THEN StoreFormEnds(form.user_pin, "required", NoRequest, stores)
            ELSE IF ~is_edit_mode /\ form.store_status = SelectStatus
            THEN StoreFormEnds(form.user_pin, "select_status", NoRequest, stores)
            ELSE IF ~is_edit_mode /\ form.store_type = SelectType
            THEN StoreFormEnds(form.user_pin, "select_type", NoRequest, stores)
            ELSE IF contact_rejected[form.contact_number]
            THEN StoreFormEnds(form.user_pin, "invalid_contact", NoRequest, stores)
            ELSE IF hours_rejected[form.store_hours]
            THEN StoreFormEnds(form.user_pin, "invalid_hours", NoRequest, stores)
            ELSE StoreFormSaves(form.user_pin, form.name, form.address, form.store_type)
    /\ UNCHANGED <<delivery_fees, editing_delivery_fee_id, editing_delivery_fee_details,
                   selected_delivery_tab>>
    /\ FormsFrame

\* the fee submission returns from its handler without a write and the run
\* goes on to its end
FeeFormEnds(user_pin, outcome) ==
    /\ submission' = Submission("fee", user_pin, outcome)
    /\ ScriptRuns(stores_cache, delivery_fees_cache, stores, delivery_fees)
    /\ UNCHANGED <<delivery_fees, clock, editing_delivery_fee_id,
                   editing_delivery_fee_details, selected_delivery_tab>>

\* if submit_button: of the Add/Edit Delivery Fee form, which the "Add/Edit"
\* tab shows.  After an update that returned True the handler fetches the
\* fees again, clears the edit and calls st.rerun(); add_delivery_fee_to_db
\* leaves through its own st.rerun().
SubmitFee ==
    /\ selected_delivery_tab = "Add/Edit"
    /\ geocode_response' = NoRequest
    /\ \E user_pin \in Pins :
        IF pin_is_incorrect(user_pin) THEN FeeFormEnds(user_pin, "incorrect_pin")
        ELSE \E location \in FormLocations, zone \in FormZones :
        IF ~Truthy(location) THEN FeeFormEnds(user_pin, "required")
        ELSE IF editing_delivery_fee_id # PyNone
        THEN IF \/ update_delivery_fee_finds_duplicate(delivery_fees,
                                    editing_delivery_fee_id.n, location, zone)
                \/ \A d \in delivery_fees : d.id # editing_delivery_fee_id.n
             THEN FeeFormEnds(user_pin, "update_returned_False")
             ELSE LET cleared == clear_edit_state([id |-> editing_delivery_fee_id,
                                                   details |-> editing_delivery_fee_details])
                  IN  /\ delivery_fees' = update_delivery_fee_write(delivery_fees,
                                            editing_delivery_fee_id.n, location, 10, zone)
                      /\ editing_delivery_fee_id' = cleared.id
                      /\ editing_delivery_fee_details' = cleared.details
                      /\ selected_delivery_tab' = "Add/Edit"
                      /\ submission' = Submission("fee", user_pin, "updated")
                      /\ ScriptRuns(cache_data_clear(stores_cache),
                                    cache_data_clear(delivery_fees_cache),
                                    stores, delivery_fees')
                      /\ UNCHANGED clock
        ELSE IF add_delivery_fee_finds_duplicate(delivery_fees, location, zone)
             THEN FeeFormEnds(user_pin, "add_returned_False")
             ELSE /\ clock <= MaxDocs
                  /\ delivery_fees' = add_delivery_fee_write(delivery_fees, clock,
                                                             location, 10, zone)
                  /\ clock' = clock + 1
                  /\ submission' = Submission("fee", user_pin, "added")
                  /\ ScriptRuns(cache_data_clear(stores_cache),
                                cache_data_clear(delivery_fees_cache),
                                stores, delivery_fees')
                  /\ UNCHANGED <<editing_delivery_fee_id, editing_delivery_fee_details,
                                 selected_delivery_tab>>
    /\ UNCHANGED <<stores, editing_store_id, editing_store_details>>
    /\ FormsFrame

\* the edit button of a row of the store list: the list is stores_df as the
\* latest run fetched it, and the callback looks the id up in stores_df
set_edit_store_state ==
    \E i \in DOMAIN stores_df :
        LET store_id == stores_df[i].id
            store_to_edit == SelectSeq(stores_df, LAMBDA row : row.id = store_id)
        IN  /\ store_to_edit # <<>>
            /\ editing_store_id' = PyInt(store_id)
            /\ editing_store_details' = <<store_to_edit[1]>>
            /\ NoFormHandled
            /\ ScriptRuns(stores_cache, delivery_fees_cache, stores, delivery_fees)
            /\ UNCHANGED <<stores, delivery_fees, clock, editing_delivery_fee_id,
                           editing_delivery_fee_details, selected_delivery_tab>>
            /\ FormsFrame

\* the Cancel Edit button, shown in edit mode
clear_store_edit_state ==
    LET cleared == clear_edit_state([id |-> editing_store_id,
                                     details |-> editing_store_details])
    IN  /\ editing_store_id # PyNone
        /\ editing_store_id' = cleared.id
        /\ editing_store_details' = cleared.details
        /\ NoFormHandled
        /\ ScriptRuns(stores_cache, delivery_fees_cache, stores, delivery_fees)
        /\ UNCHANGED <<stores, delivery_fees, clock, editing_delivery_fee_id,
                       editing_delivery_fee_details, selected_delivery_tab>>
        /\ FormsFrame

\* the delete button of a row of the store list: delete_store_from_db
\* deletes and clears the cache, the callback fetches stores_df again, then
\* the script runs
delete_and_rerun_store ==
    \E i \in DOMAIN stores_df :
        /\ stores' = delete_document(stores, stores_df[i].id)
        /\ NoFormHandled
        /\ ScriptRuns(Cached(cache_data(cache_data_clear(stores_cache),
                                        fetch_stores_from_db_local(stores'))),
                      cache_data_clear(delivery_fees_cache),
                      stores', delivery_fees)
        /\ UNCHANGED <<delivery_fees, clock, editing_store_id, editing_store_details,
                       editing_delivery_fee_id, editing_delivery_fee_details,
                       selected_delivery_tab>>
        /\ FormsFrame

\* the radio of the Delivery Fee page is moved to the other tab
on_radio_change ==
    \E tab \in {"Search/View", "Add/Edit"} :
        LET pending == pending_fee_edit_after(tab,
                            [id |-> editing_delivery_fee_id,
                             details |-> editing_delivery_fee_details])
        IN  /\ tab # selected_delivery_tab
            /\ selected_delivery_tab' = tab
            /\ editing_delivery_fee_id' = pending.id
            /\ editing_delivery_fee_details' = pending.details
            /\ NoFormHandled
            /\ ScriptRuns(stores_cache, delivery_fees_cache, stores, delivery_fees)
            /\ UNCHANGED <<stores, delivery_fees, clock, editing_store_id,
                           editing_store_details>>
            /\ FormsFrame

\* the edit button of a row of the fee list, which the "Add/Edit" tab shows
set_edit_fee_state ==
    \E i \in DOMAIN delivery_fees_df :
        LET fee_id == delivery_fees_df[i].id
            fee_to_edit == SelectSeq(delivery_fees_df, LAMBDA row : row.id = fee_id)
        IN  /\ selected_delivery_tab = "Add/Edit"
            /\ fee_to_edit # <<>>
            /\ editing_delivery_fee_id' = PyInt(fee_id)
            /\ editing_delivery_fee_details' = <<fee_to_edit[1]>>
            /\ selected_delivery_tab' = "Add/Edit"
            /\ NoFormHandled
            /\ ScriptRuns(stores_cache, delivery_fees_cache, stores, delivery_fees)
            /\ UNCHANGED <<stores, delivery_fees, clock, editing_store_id,
                           editing_store_details>>
            /\ FormsFrame

\* the Cancel Edit button of the fee form, shown in edit mode
clear_delivery_fee_edit_state ==
    LET cleared == clear_edit_state([id |-> editing_delivery_fee_id,
                                     details |-> editing_delivery_fee_details])
    IN  /\ selected_delivery_tab = "Add/Edit"
        /\ editing_delivery_fee_id # PyNone
        /\ editing_delivery_fee_id' = cleared.id
        /\ editing_delivery_fee_details' = cleared.details
        /\ selected_delivery_tab' = "Add/Edit"
        /\ NoFormHandled
        /\ ScriptRuns(stores_cache, delivery_fees_cache, stores, delivery_fees)
        /\ UNCHANGED <<stores, delivery_fees, clock, editing_store_id,
                       editing_store_details>>
        /\ FormsFrame

\* the delete button of a row of the fee list
delete_and_rerun_fee ==
    \E i \in DOMAIN delivery_fees_df :
        /\ selected_delivery_tab = "Add/Edit"
        /\ delivery_fees' = delete_document(delivery_fees, delivery_fees_df[i].id)
        /\ NoFormHandled
        /\ ScriptRuns(cache_data_clear(stores_cache),
                      Cached(cache_data(cache_data_clear(delivery_fees_cache),
                                        fetch_delivery_fees_from_db_local(delivery_fees'))),
                      stores, delivery_fees')
        /\ UNCHANGED <<stores, clock, editing_store_id, editing_store_details,
                       editing_delivery_fee_id, editing_delivery_fee_details,
                       selected_delivery_tab>>
        /\ FormsFrame

NextForms ==
    \/ SubmitStore \/ set_edit_store_state \/ clear_store_edit_state
    \/ delete_and_rerun_store
    \/ SubmitFee \/ set_edit_fee_state \/ clear_delivery_fee_edit_state
    \/ delete_and_rerun_fee
    \/ on_radio_change \/ PageRun
SpecForms == InitForms /\ [][NextForms]_vars

\* C15: a step that puts a new or changed document into 'stores' or
\* 'delivery_fees' is a submission whose PIN is SECURITY_PIN, and a submission
\* with any other PIN leaves both collections as they were.
C15_WritesNeedPin ==
    [][ /\ ( \/ \E d \in stores' : d \notin stores
             \/ \E d \in delivery_fees' : d \notin delivery_fees )
            => (submission'.user_pin = SECURITY_PIN /\ submission'.outcome \in {"added", "updated"})
        /\ (submission'.form # "none" /\ submission'.user_pin # SECURITY_PIN)
            => (stores' = stores /\ delivery_fees' = delivery_fees)
      ]_vars

C15_Witness ==
    /\ submission = Submission("store", "12345", "incorrect_pin")
    /\ editing_store_id = PyInt(1)
    /\ \E d \in stores : d.id = 1
    /\ delivery_fees # {}

\* C17: a document keeps its timestamp for as long as it is stored, and a step
\* that neither adds nor deletes a document leaves the ids of both
\* collections as they were.
C17_IdAndTimestampKept ==
    [][ /\ \A d \in stores : \A e \in stores' :
                d.id = e.id => d.timestamp = e.timestamp
        /\ \A d \in delivery_fees : \A e \in delivery_fees' :
                d.id = e.id => d.timestamp = e.timestamp
        /\ Cardinality(stores') = Cardinality(stores)
                => {e.id : e \in stores'} = {d.id : d \in stores}
        /\ Cardinality(delivery_fees') = Cardinality(delivery_fees)
                => {e.id : e \in delivery_fees'} = {d.id : d \in delivery_fees}
      ]_vars

C17_Witness ==
    /\ submission = Submission("fee", SECURITY_PIN, "updated")
    /\ \E d \in stores :
        /\ d.id = 1 /\ d.timestamp = 1
        /\ d.name = PyStr(AlBarshaHyphen) /\ d.store_type = PyNone
    /\ \E d \in delivery_fees :
        /\ d.id = 2 /\ d.timestamp = 2 /\ d.zone = PyStr(ZoneA)

\* C20: every document of 'stores' has a name and an address that are
\* strings of at least one character.
C20_NameAndAddressGiven ==
    \A d \in stores :
        /\ d.name.tag = "str" /\ d.name.chars # <<>>
        /\ d.address.tag = "str" /\ d.address.chars # <<>>

C20_Witness ==
    /\ submission = Submission("store", SECURITY_PIN, "required")
    /\ editing_store_id = PyInt(2)
    /\ \E d \in stores : d.id = 2 /\ d.address = PyStr(OneMainSt)

\* C21: a document that a step puts into 'stores', new or changed, carries
\* the latitude and longitude of the OK response that the geocoding request
\* of that submission met; when the request met anything else, the step puts
\* no new or changed document into 'stores'.
C21_CoordinatesFromGeocoding ==
    [][ \A d \in stores' : d \notin stores =>
            /\ geocode_response'.kind = "OK"
            /\ d.latitude = geocode_response'.lat.n
            /\ d.longitude = geocode_response'.lng.n
      ]_vars

C21_Witness ==
    /\ submission = Submission("store", SECURITY_PIN, "no_coordinates")
    /\ geocode_response = GeocodeResponse("ZERO_RESULTS", PyNone, PyNone)
    /\ \E d \in stores :
        /\ editing_store_id = PyInt(d.id)
        /\ d.latitude = 60 /\ d.longitude = 120

\* C22: when the geocoding request of a search met anything but an OK
\* response, the search ends at the error message: no row was ranked, no
\* result is shown and get_route_details was not called; and whenever
\* get_route_details was called, the request had met an OK response.
C22_FailedGeocodeStopsSearch ==
    /\ (search_outcome # "idle" /\ geocode_response.kind # "OK") =>
            /\ search_outcome = "no_coordinates"
            /\ user_lat = PyNone /\ user_lon = PyNone
            /\ filtered_stores = <<>> /\ top_three_stores = <<>>
            /\ route_requests = 0
    /\ route_requests > 0 => geocode_response.kind = "OK"

C22_Witness ==
    /\ search_outcome = "no_coordinates"
    /\ geocode_response = GeocodeResponse("RequestException", PyNone, PyNone)
    /\ store_search_type = AllStores
    /\ Len(stores_df) = 2
    /\ route_requests = 0

\* C23: for every two points among the stored stores and the location
\* geocoded for the search, haversine from the first to the second equals
\* haversine from the second to the first.
C23_HaversineSymmetric ==
    LET points == {<<d.latitude, d.longitude>> : d \in stores}
                    \cup (IF user_lat.tag = "int" /\ user_lon.tag = "int"
                          THEN {<<user_lat.n, user_lon.n>>} ELSE {})
    IN  \A a, b \in points :
            haversine(a[1], a[2], b[1], b[2]) = haversine(b[1], b[2], a[1], a[2])

C23_Witness ==
    /\ search_outcome = "results"
    /\ user_lat = PyInt(60) /\ user_lon = PyInt(60)
    /\ \E d, e \in stores :
        /\ d.latitude = 60 /\ d.longitude = 120
        /\ e.latitude = -60 /\ e.longitude = 60
    /\ \E i \in DOMAIN top_three_stores :
        /\ top_three_stores[i].distance_km = haversine(60, 120, 60, 60)
        /\ top_three_stores[i].distance_km > 0

\* C29: a search or a store submission whose geocoding request met an OK
\* response does not end at the "could not find coordinates" message.
C29_OkCoordinatesAccepted ==
    geocode_response.kind = "OK" =>
        /\ search_outcome # "no_coordinates"
        /\ submission.outcome # "no_coordinates"

\* C24: an update_store_in_db call on a stored document, with a name and an
\* address whose normalized key no other document holds, returns True and
\* leaves the document with the name and address given, whether the key is
\* the document's own or a new one; and the same for
\* update_delivery_fee_in_db with location and zone.
C24_UpdateNotItsOwnDuplicate ==
    /\ last_call.op = "update_store" =>
        \A d \in stores :
            ( /\ d.id = last_call.id
              /\ \A e \in stores : e.id # d.id =>
                    ~ ( /\ e.normalized_name = normalized(last_call.name)
                        /\ e.normalized_address = normalized(last_call.address) ) )
            => ( /\ last_return = "True"
                 /\ d.name = last_call.name /\ d.address = last_call.address
                 /\ d.normalized_name = normalized(last_call.name)
                 /\ d.normalized_address = normalized(last_call.address) )
    /\ last_call.op = "update_delivery_fee" =>
        \A d \in delivery_fees :
            ( /\ d.id = last_call.id
              /\ \A e \in delivery_fees : e.id # d.id =>
                    ~ ( /\ e.normalized_location = normalized(last_call.location)
                        /\ e.normalized_zone = normalized_zone_of(last_call.zone) ) )
            => ( /\ last_return = "True"
                 /\ d.location = last_call.location /\ d.zone = last_call.zone )

C24_Witness ==
    /\ last_call.op = "update_store"
    /\ last_return = "True"
    /\ last_call.name = PyStr(AlBarshaUpper)
    /\ Cardinality(stores) = 2
    /\ \E d \in stores :
        /\ d.id = last_call.id /\ d.name = PyStr(AlBarshaUpper)
        /\ d.timestamp = 1
    /\ \E e \in stores : e.id # last_call.id /\ e.name = PyStr(AlBarshaHyphen)
                            /\ e.address = last_call.address

\* C25: a submission whose add or update call returned False leaves both
\* collections as they were, and when it was a store update the session
\* stays in edit mode on the same record, with the same details.
C25_RejectedWritesNothing ==
    [][ submission'.outcome \in {"add_returned_False", "update_returned_False"} =>
            /\ stores' = stores
            /\ delivery_fees' = delivery_fees
            /\ (submission'.form = "store" /\ submission'.outcome = "update_returned_False") =>
                    /\ editing_store_id # PyNone
                    /\ editing_store_id' = editing_store_id
                    /\ editing_store_details' = editing_store_details
      ]_vars

C25_Witness ==
    /\ submission = Submission("store", SECURITY_PIN, "update_returned_False")
    /\ Cardinality(stores) = 2
    /\ \E d \in stores :
        /\ editing_store_id = PyInt(d.id)
        /\ editing_store_details = <<d>>

\* C26: whenever a list is cached, the frame cached is the collection as it
\* is now, so the next fetch returns the current documents: none that a
\* delete removed, every one that an add wrote, each as its latest update
\* left it.
C26_CacheIsCurrent ==
    /\ cache_data(stores_cache, fetch_stores_from_db_local(stores))
            = fetch_stores_from_db_local(stores)
    /\ cache_data(delivery_fees_cache, fetch_delivery_fees_from_db_local(delivery_fees))
            = fetch_delivery_fees_from_db_local(delivery_fees)

C26_Witness ==
    /\ clock = 3
    /\ delivery_fees = {}
    /\ \E d \in stores : d.id = 1 /\ stores = {d}
    /\ stores_cache.hit /\ Len(stores_cache.df) = 1
    /\ stores_df = stores_cache.df

\* C27: editing_store_id is None exactly when editing_store_details is
\* empty, and editing_delivery_fee_id is None exactly when
\* editing_delivery_fee_details is empty.
C27_IdAndDetailsTogether ==
    /\ editing_store_id = PyNone <=> editing_store_details = EmptyDict
    /\ editing_delivery_fee_id = PyNone <=> editing_delivery_fee_details = EmptyDict

C27_Witness ==
    /\ editing_store_id = PyInt(1)
    /\ Len(editing_store_details) = 1
    /\ editing_delivery_fee_id = PyNone
    /\ editing_delivery_fee_details = EmptyDict
    /\ submission = Submission("fee", SECURITY_PIN, "updated")

\* C28: when selected_delivery_tab is "Search/View", editing_delivery_fee_id
\* is None.
C28_NoEditOnSearchTab ==
    selected_delivery_tab = "Search/View" => editing_delivery_fee_id = PyNone

C28_Witness ==
    /\ selected_delivery_tab = "Search/View"
    /\ editing_delivery_fee_id = PyNone
    /\ Len(delivery_fees_df) = 2
    /\ submission = NoSubmission

\* C30: when editing_store_id is set, 'stores' has a document with that id.
C30_EditedStoreExists ==
    editing_store_id # PyNone => \E d \in stores : d.id = editing_store_id.n

====
